---- MODULE Spec2Model ----
(***************************************************************************)
(* A state-machine model of tools/generate_dataset_docs.py: table          *)
(* discovery, version resolution, schema loading, wildcard expansion of    *)
(* join groups, pairwise join enumeration with statistics, and report      *)
(* writing.                                                                *)
(*                                                                         *)
(* A Python string is modelled as a sequence of one-character strings, so  *)
(* that concatenation, splitting, prefix matching and the code-point       *)
(* ordering of `<` are computed as Python computes them.  An attribute     *)
(* that may be None is a sequence of at most one value: None is the empty  *)
(* sequence, and a value v is the sequence of v alone.                     *)
(***************************************************************************)
EXTENDS Integers, Sequences, FiniteSets, TLC

None == <<>>

Some(v) == <<v>>

Get(o) == o[1]

(* not o, for an attribute that is None or a string: None and the empty    *)
(* string are false.                                                       *)
Not(o) == o = None \/ Get(o) = <<>>

(* No exception was raised. *)
NoError == ""

(* The characters in ascending code-point order. *)
Ascii ==
  << "*", "+", "-", ".",
     "0", "1", "2", "3", "4", "5", "6", "7", "8", "9", ":",
     "A", "B", "C", "D", "E", "F", "G", "H", "I", "J", "K", "L", "M",
     "N", "O", "P", "Q", "R", "S", "T", "U", "V", "W", "X", "Y", "Z",
     "_",
     "a", "b", "c", "d", "e", "f", "g", "h", "i", "j", "k", "l", "m",
     "n", "o", "p", "q", "r", "s", "t", "u", "v", "w", "x", "y", "z",
     "|" >>

Ord(c) == CHOOSE k \in DOMAIN Ascii : Ascii[k] = c

Digits == {"0", "1", "2", "3", "4", "5", "6", "7", "8", "9"}

Letters ==
  {"A", "B", "C", "D", "E", "F", "G", "H", "I", "J", "K", "L", "M",
   "N", "O", "P", "Q", "R", "S", "T", "U", "V", "W", "X", "Y", "Z",
   "a", "b", "c", "d", "e", "f", "g", "h", "i", "j", "k", "l", "m",
   "n", "o", "p", "q", "r", "s", "t", "u", "v", "w", "x", "y", "z"}

IsDigit(c) == c \in Digits

IsAlnum(c) == c \in Digits \cup Letters

(* Python's s < t on strings: the first differing character decides, by    *)
(* code point; a proper prefix is smaller.                                 *)
StrLess(s, t) ==
  \E k \in 1..Len(t) :
    /\ k <= Len(s) + 1
    /\ \A m \in 1..(k - 1) : s[m] = t[m]
    /\ (k = Len(s) + 1 \/ Ord(s[k]) < Ord(t[k]))

Range(f) == {f[x] : x \in DOMAIN f}

(* d[k] = v on a dict modelled as a function. *)
Put(d, k, v) == [x \in DOMAIN d \cup {k} |-> IF x = k THEN v ELSE d[x]]

EmptyDict == [x \in {} |-> None]

(***************************************************************************)
(* The version pattern of re.match on a table name: any non-empty base,    *)
(* an underscore, then one or more digits followed by alphanumerics.       *)
(***************************************************************************)

(* The positions of an underscore that has at least one character before   *)
(* it and a digit right after it.                                          *)
VersionSplits(name) ==
  {k \in 2..(Len(name) - 1) : name[k] = "_" /\ IsDigit(name[k + 1])}

HasVersion(name) == VersionSplits(name) # {}

(* (.+) is greedy: the last such underscore. *)
SplitAt(name) ==
  CHOOSE k \in VersionSplits(name) : \A m \in VersionSplits(name) : m <= k

(* m.group(1) *)
VersionBase(name) == SubSeq(name, 1, SplitAt(name) - 1)

(* m.group(2): the longest alphanumeric run after the underscore. *)
VersionToken(name) ==
  LET s == SplitAt(name) + 1
      e == CHOOSE x \in s..Len(name) :
             /\ \A m \in s..x : IsAlnum(name[m])
             /\ (x = Len(name) \/ ~IsAlnum(name[x + 1]))
  IN  SubSeq(name, s, e)

(* A faulty variant: versions compared as numbers would be (shorter is older). *)
NewerNumeric(cur, name) ==
  Len(cur) < Len(name) \/ (Len(cur) = Len(name) /\ StrLess(cur, name))

(* latest_table_base[base] < table.name *)
Newer(cur, name) == StrLess(cur, name)

(* A faulty variant: the check of no_version_tables left out. *)
SupersedesUnguarded(ltb, nvt, base, name) == Newer(ltb[base], name)

(* The elif of the scan: the table replaces the latest of its base. *)
Supersedes(ltb, nvt, base, name) ==
  Newer(ltb[base], name) /\ base \notin nvt

(* One iteration of the scan over the tables: the new                      *)
(* latest_table_base and no_version_tables.                                *)
ScanStep(ltb, nvt, name) ==
  IF ~HasVersion(name)
  THEN [ltb |-> Put(ltb, name, name), nvt |-> nvt \cup {name}]
  ELSE LET base == VersionBase(name)
       IN  IF base \notin DOMAIN ltb
           THEN [ltb |-> Put(ltb, base, name), nvt |-> nvt]
           ELSE IF Supersedes(ltb, nvt, base, name)
                THEN [ltb |-> Put(ltb, base, name), nvt |-> nvt]
                ELSE [ltb |-> ltb, nvt |-> nvt]

(***************************************************************************)
(* Bounds of the model.                                                    *)
(***************************************************************************)

(* The most tables a run discovers. *)
MaxTables == 3

(* The most entries of a generated join group. *)
MaxGroupLen == 3

(* The greatest row count of a bucket of a join query. *)
MaxCnt == 2

(* The most buckets a grouped join query returns. *)
MaxBuckets == 2

(***************************************************************************)
(* The warehouse, as the run sees it: table names it lists, and what       *)
(* `bq show` and the group-by query answer for a table.                    *)
(***************************************************************************)

(* The names the listing is drawn from when version resolution is          *)
(* explored: a, a_1, a_2, a_10, a_1_2, b_1.                                *)
VersionedNames ==
  { <<"a">>, <<"a", "_", "1">>, <<"a", "_", "2">>, <<"a", "_", "1", "0">>,
    <<"a", "_", "1", "_", "2">>, <<"b", "_", "1">> }

(* The listing when joins are explored: A, B, C, a, ab, x_1, x_2. *)
JoinListing ==
  << <<"A">>, <<"B">>, <<"C">>, <<"a">>, <<"a", "b">>,
     <<"x", "_", "1">>, <<"x", "_", "2">> >>

(* table_info["schema"]["fields"], already flat: the field names. *)
Schema(name) ==
  CASE name = <<"A">> -> << <<"c", "1">> >>
    [] name = <<"B">> -> << <<"c", "2">> >>
    [] name = <<"C">> -> << <<"c", "3">> >>
    [] name = <<"a">> -> << <<"b", "c">> >>
    [] name = <<"a", "b">> -> << <<"c">> >>
    [] name = <<"x", "_", "2">> -> << <<"c", "a">>, <<"c", "b">> >>
    [] OTHER -> << <<"i", "d">> >>

(* ts_to_string(lastModifiedTime / 1000): a date string. *)
LastModified(name) ==
  IF Len(name) > 1 THEN <<"2", "0", "1", "9">> ELSE <<"2", "0", "1", "8">>

(* table_info["numRows"] and table_info["numBytes"]. *)
NumRows(name) == 7

NumBytes(name) == 56

(* The rows of the group-by query of a table. *)
GroupRows(name) ==
  << [grouped |-> "US", cnt |-> 2], [grouped |-> "EP", cnt |-> 1] >>

(***************************************************************************)
(* The state of a run.                                                     *)
(***************************************************************************)
VARIABLES
  pc,                 \* the phase the script is in
  error,              \* the exception that ended the run, or NoError
  datasets,           \* datasets.values(): records name, last_updated
  tables,             \* the tables of the datasets, in scan order
  cursor,             \* the index of the table loops
  latest_table_base,  \* map base name -> latest table name
  no_version_tables,  \* the names that do not match the version pattern
  group_config,       \* map table name -> group-by column
  join_input,         \* join_config as read from the configuration
  join_config,        \* join_config, expanded in place
  grp,                \* the index of the join group being processed
  i,                  \* the index i of the expansion and pairing loops
  j,                  \* the index j of the pairing loop
  join_done,          \* the set of keys of the pairs processed
  joins,              \* every Join created, in creation order
  queries,            \* the join queries issued, in order
  skipped,            \* the pairs skipped because their key was in join_done
  bq_results,         \* the results the warehouse may answer a join query with
  files               \* the report files written

vars ==
  << pc, error, datasets, tables, cursor, latest_table_base,
     no_version_tables, group_config, join_input, join_config, grp, i, j,
     join_done, joins, queries, skipped, bq_results, files >>

joinVars ==
  << join_input, join_config, join_done, joins, queries, skipped, bq_results,
     files >>

(***************************************************************************)
(* Where the run goes on: the loops over the join groups have no state of  *)
(* their own between two iterations but the group and the indices.         *)
(***************************************************************************)

(* The groups from g on that have an entry. *)
GroupsFrom(jc, g) == {h \in g..Len(jc) : Len(jc[h].group) > 0}

MinOf(S) == CHOOSE x \in S : \A y \in S : x <= y

(* The first iteration of the pairing loops in group g or later; the       *)
(* report is written when there is none.                                   *)
FirstPair(jc, g) ==
  IF GroupsFrom(jc, g) = {}
  THEN [pc |-> "index", grp |-> 1, i |-> 1, j |-> 1]
  ELSE [pc |-> "pair", grp |-> MinOf(GroupsFrom(jc, g)), i |-> 1, j |-> 1]

(* The first iteration of the expansion loop in group g or later; pairing  *)
(* starts when there is none.                                              *)
FirstExpand(jc, g) ==
  IF GroupsFrom(jc, g) = {}
  THEN FirstPair(jc, 1)
  ELSE [pc |-> "expand", grp |-> MinOf(GroupsFrom(jc, g)), i |-> 1, j |-> 1]

(* Table(name=...): every other attribute is None. *)
NewTable(name) ==
  [ name |-> name, version |-> None, old_version |-> FALSE, fields |-> None,
    description |-> None, last_updated |-> None, num_rows |-> None,
    num_bytes |-> None, stats |-> None, from_joins |-> <<>> ]

(* Field(name=..., table=table): the join lists start empty. *)
NewField(name) == [name |-> name, from_joins |-> <<>>, to_joins |-> <<>>]

(***************************************************************************)
(* Discovery: one table of the listing appended to its dataset.            *)
(***************************************************************************)
Discover(name) ==
  /\ pc = "discover"
  /\ Len(tables) < MaxTables
  /\ tables' = Append(tables, NewTable(name))
  /\ UNCHANGED << pc, error, datasets, cursor, latest_table_base,
                  no_version_tables, group_config, grp, i, j >>
  /\ UNCHANGED joinVars

(***************************************************************************)
(* Version detection.                                                      *)
(***************************************************************************)

(* table.version after the scan of the table. *)
ScannedVersion(name) ==
  IF HasVersion(name) THEN Some(VersionToken(name)) ELSE None

(* The first table scanned: the listing is complete. *)
(* One iteration of the scan loop.                   *)
VersionScan ==
  /\ pc \in {"discover", "versions"}
  /\ LET k == IF pc = "discover" THEN 1 ELSE cursor
     IN  /\ k <= Len(tables)
         /\ LET r == ScanStep(latest_table_base, no_version_tables,
                              tables[k].name)
            IN  /\ latest_table_base' = r.ltb
                /\ no_version_tables' = r.nvt
         /\ tables' = [tables EXCEPT
                         ![k].version = ScannedVersion(tables[k].name)]
         /\ cursor' = k + 1
  /\ pc' = "versions"
  /\ UNCHANGED << error, datasets, group_config, grp, i, j >>
  /\ UNCHANGED joinVars

(* latest_tables: the values of latest_table_base. *)
LatestTables(ltb) == Range(ltb)

(* The marking loop over all tables. *)
MarkedOld(ts, ltb) ==
  [k \in DOMAIN ts |->
     IF ts[k].name \notin LatestTables(ltb)
     THEN [ts[k] EXCEPT !.old_version = TRUE]
     ELSE ts[k]]

(* The marking loop; with no table at all the loading loop is empty too    *)
(* and the run goes on to the join groups.                                 *)
MarkOld ==
  /\ IF tables = <<>> THEN pc = "discover"
     ELSE pc = "versions" /\ cursor > Len(tables)
  /\ tables' = MarkedOld(tables, latest_table_base)
  /\ LET p == IF tables = <<>> THEN FirstExpand(join_config, 1)
              ELSE [pc |-> "load", grp |-> 1, i |-> 1, j |-> 1]
     IN  pc' = p.pc /\ grp' = p.grp /\ i' = p.i /\ j' = p.j
  /\ cursor' = 1
  /\ UNCHANGED << error, datasets, latest_table_base, no_version_tables,
                  group_config >>
  /\ UNCHANGED joinVars

(***************************************************************************)
(* Schema and statistics loading.                                          *)
(***************************************************************************)

(* table.stats: one JoinStat per row of the group-by query. *)
GroupStats(rows) ==
  LET keys == {rows[k].grouped : k \in DOMAIN rows}
  IN  [g \in keys |->
         LET k == CHOOSE m \in DOMAIN rows :
                    /\ rows[m].grouped = g
                    /\ \A n \in DOMAIN rows : rows[n].grouped = g => n <= m
         IN  [key |-> g, num_rows |-> rows[k].cnt]]

(* The body of the loading loop for a table that is not skipped. *)
Loaded(t, gc) ==
  [ t EXCEPT
      !.fields = Some([k \in DOMAIN Schema(t.name) |->
                         NewField(Schema(t.name)[k])]),
      !.description = Some(""),
      !.last_updated = Some(LastModified(t.name)),
      !.num_rows = Some(NumRows(t.name)),
      !.num_bytes = Some(NumBytes(t.name)),
      !.stats = IF t.name \in DOMAIN gc
                THEN Some(GroupStats(GroupRows(t.name)))
                ELSE None ]

(* A faulty variant: the loop does not skip old versions. *)
LoadStepNoSkip(t, gc) == Loaded(t, gc)

(* One iteration of the loading loop: an old version is skipped. *)
LoadStep(t, gc) == IF t.old_version THEN t ELSE Loaded(t, gc)

(* dataset.last_updated after the table was handled. *)
DatasetUpdated(d, t) ==
  IF t.last_updated # None
     /\ (d.last_updated = None
         \/ StrLess(Get(d.last_updated), Get(t.last_updated)))
  THEN [d EXCEPT !.last_updated = t.last_updated]
  ELSE d

LoadTable ==
  /\ pc = "load"
  /\ cursor <= Len(tables)
  /\ LET t == LoadStep(tables[cursor], group_config)
     IN  /\ tables' = [tables EXCEPT ![cursor] = t]
         /\ datasets' = [datasets EXCEPT ![1] = DatasetUpdated(@, t)]
  /\ cursor' = cursor + 1
  /\ LET p == IF cursor = Len(tables) THEN FirstExpand(join_config, 1)
              ELSE [pc |-> "load", grp |-> 1, i |-> 1, j |-> 1]
     IN  pc' = p.pc /\ grp' = p.grp /\ i' = p.i /\ j' = p.j
  /\ UNCHANGED << error, latest_table_base, no_version_tables, group_config >>
  /\ UNCHANGED joinVars

(***************************************************************************)
(* Wildcards in join groups.                                               *)
(***************************************************************************)

(* "*" in entry *)
HasWildcard(entry) == \E k \in DOMAIN entry : entry[k] = "*"

(* entry.split("|") *)
Bars(entry) == {k \in DOMAIN entry : entry[k] = "|"}

(* table, column = entry.split("|") unpacks: exactly two parts. *)
Unpacks(entry) == Cardinality(Bars(entry)) = 1

TablePart(entry) == SubSeq(entry, 1, MinOf(Bars(entry)) - 1)

ColumnPart(entry) == SubSeq(entry, MinOf(Bars(entry)) + 1, Len(entry))

(* fmt.replace("*", ".*") *)
RECURSIVE StarToDotStar(_)
StarToDotStar(fmt) ==
  IF fmt = <<>> THEN <<>>
  ELSE (IF Head(fmt) = "*" THEN <<".", "*">> ELSE <<Head(fmt)>>)
       \o StarToDotStar(Tail(fmt))

Quantifiers == {"*", "+"}

(* The pattern language of re (Python 3.11 and later): an item is a        *)
(* character, or "." for any character; a quantifier "*" or "+" may follow *)
(* it, and a "+" right after the quantifier makes it possessive.           *)

(* The quantifier of the item at the head of re, or "". *)
QuantOf(re) == IF Len(re) >= 2 /\ re[2] \in Quantifiers THEN re[2] ELSE ""

(* Whether that quantifier is possessive. *)
Possessive(re) == QuantOf(re) # "" /\ Len(re) >= 3 /\ re[3] = "+"

(* The pattern after the item at the head of re and its quantifier. *)
AfterItem(re) ==
  SubSeq(re, 2 + (IF QuantOf(re) = "" THEN 0 ELSE 1)
               + (IF Possessive(re) THEN 1 ELSE 0), Len(re))

(* re.match raises re.error: a quantifier where an item is expected        *)
(* (nothing to repeat at the start, multiple repeat after a quantified     *)
(* item).                                                                  *)
RECURSIVE ReError(_)
ReError(re) ==
  IF re = <<>> THEN FALSE
  ELSE IF re[1] \in Quantifiers THEN TRUE
  ELSE ReError(AfterItem(re))

(* re.match(re, s) is not None: a match of a prefix.  A greedy quantifier  *)
(* gives back what the rest of the pattern needs; a possessive one keeps   *)
(* the whole run of characters it matched.                                 *)
RECURSIVE ReMatch(_, _)
ReMatch(re, s) ==
  IF re = <<>> THEN TRUE
  ELSE LET a == re[1]
           q == QuantOf(re)
           rest == AfterItem(re)
           Hit(c) == a = "." \/ a = c
           run == CHOOSE n \in 0..Len(s) :
                    /\ \A m \in 1..n : Hit(s[m])
                    /\ (n = Len(s) \/ ~Hit(s[n + 1]))
           lo == IF q = "+" THEN 1 ELSE 0
       IN  IF q = ""
           THEN s # <<>> /\ Hit(s[1]) /\ ReMatch(rest, Tail(s))
           ELSE IF Possessive(re)
           THEN run >= lo /\ ReMatch(rest, SubSeq(s, run + 1, Len(s)))
           ELSE \E n \in lo..run : ReMatch(rest, SubSeq(s, n + 1, Len(s)))

(* "%s|%s" % (table.name, field.name) for the matching fields of a table. *)
RECURSIVE FieldMatches(_, _, _)
FieldMatches(t, k, cre) ==
  IF k > Len(Get(t.fields)) THEN <<>>
  ELSE (IF ReMatch(cre, Get(t.fields)[k].name)
        THEN << t.name \o <<"|">> \o Get(t.fields)[k].name >>
        ELSE <<>>)
       \o FieldMatches(t, k + 1, cre)

(* The tables whose fields are scanned for a table pattern. *)
ScannedTable(t, tre) == ReMatch(tre, t.name) /\ ~t.old_version

(* matches: the scan of all tables, from table k on. *)
RECURSIVE Matches(_, _, _, _)
Matches(ts, k, tre, cre) ==
  IF k > Len(ts) THEN <<>>
  ELSE (IF ScannedTable(ts[k], tre) THEN FieldMatches(ts[k], 1, cre)
        ELSE <<>>)
       \o Matches(ts, k + 1, tre, cre)

(* Whether the scan for a wildcard entry raises: the table pattern is      *)
(* compiled for the first table, the column pattern for the first field    *)
(* of a scanned table.                                                     *)
ScanRaises(ts, tre, cre) ==
  /\ ts # <<>>
  /\ \/ ReError(tre)
     \/ /\ ReError(cre)
        /\ \E k \in DOMAIN ts :
             ScannedTable(ts[k], tre) /\ Get(ts[k].fields) # <<>>

(* The group after one iteration of the while loop at index k, and the     *)
(* index after it.                                                         *)
ExpandStep(ts, group, k) ==
  IF ~HasWildcard(group[k])
  THEN [error |-> NoError, group |-> group, i |-> k + 1]
  ELSE IF ~Unpacks(group[k])
  THEN [error |-> "ValueError", group |-> group, i |-> k]
  ELSE LET tre == StarToDotStar(TablePart(group[k]))
           cre == StarToDotStar(ColumnPart(group[k]))
       IN  IF ScanRaises(ts, tre, cre)
           THEN [error |-> "re.error", group |-> group, i |-> k]
           ELSE LET matches == Matches(ts, 1, tre, cre)
                IN  [ error |-> NoError,
                      group |-> SubSeq(group, 1, k - 1) \o matches
                                \o SubSeq(group, k + 1, Len(group)),
                      i |-> k + Len(matches) ]

Expand ==
  /\ pc = "expand"
  /\ LET r == ExpandStep(tables, join_config[grp].group, i)
         jc == [join_config EXCEPT ![grp].group = r.group]
         p == IF r.error # NoError
              THEN [pc |-> "aborted", grp |-> grp, i |-> i, j |-> j]
              ELSE IF r.i <= Len(r.group)
              THEN [pc |-> "expand", grp |-> grp, i |-> r.i, j |-> j]
              ELSE FirstExpand(jc, grp + 1)
     IN  /\ join_config' = jc
         /\ error' = r.error
         /\ pc' = p.pc /\ grp' = p.grp /\ i' = p.i /\ j' = p.j
  /\ UNCHANGED << datasets, tables, cursor, latest_table_base,
                  no_version_tables, group_config, join_input, join_done,
                  joins, queries, skipped, bq_results, files >>

(***************************************************************************)
(* Joins inside each group.                                                *)
(***************************************************************************)

(* table.startswith("+") *)
StartsWithPlus(table) == table # <<>> /\ table[1] = "+"

(* table.lstrip("+") *)
RECURSIVE LStripPlus(_)
LStripPlus(table) ==
  IF StartsWithPlus(table) THEN LStripPlus(Tail(table)) ELSE table

(* A faulty variant: every pair is joined, marked or not. *)
EligibleAlways(first_table, second_table) == TRUE

(* Only join tables if one or more has a + as the prefix. *)
Eligible(first_table, second_table) ==
  StartsWithPlus(first_table) \/ StartsWithPlus(second_table)

(* key = first_table + first_column + second_table + second_column *)
JoinKey(first_table, first_column, second_table, second_column) ==
  first_table \o first_column \o second_table \o second_column

(* find_field(table_name, column): the first table of that name that has   *)
(* the column answers; a table of that name whose fields are None (an old  *)
(* version) raises TypeError when its fields are iterated.                 *)
FindField(ts, table_name, column) ==
  LET named == {k \in DOMAIN ts : ts[k].name = table_name}
      raises == {k \in named : ts[k].fields = None}
      hits == {k \in named \ raises :
                 \E f \in DOMAIN Get(ts[k].fields) :
                   Get(ts[k].fields)[f].name = column}
  IN  IF raises \cup hits = {} THEN [status |-> "none"]
      ELSE LET k == MinOf(raises \cup hits)
           IN  IF k \in raises THEN [status |-> "raises"]
               ELSE [ status |-> "found", table |-> k,
                      field |-> MinOf({f \in DOMAIN Get(ts[k].fields) :
                                         Get(ts[k].fields)[f].name = column}) ]

(* Fractions stand for the floats of Python's true division: n / d is the  *)
(* pair of n and d in lowest terms.                                        *)
RECURSIVE Gcd(_, _)
Gcd(a, b) == IF b = 0 THEN a ELSE Gcd(b, a % b)

Divide(n, d) == << n \div Gcd(n, d), d \div Gcd(n, d) >>

RECURSIVE SumCnt(_, _)
SumCnt(rows, k) == IF k = 0 THEN 0 ELSE SumCnt(rows, k - 1) + rows[k].cnt

RECURSIVE SumSecond(_, _)
SumSecond(rows, k) ==
  IF k = 0 THEN 0 ELSE SumSecond(rows, k - 1) + rows[k].second_cnt

(* The mean of second_cnt / cnt over the rows, as a fraction. *)
RECURSIVE SumOfPercents(_, _)
SumOfPercents(rows, k) ==
  IF k = 0 THEN <<0, 1>>
  ELSE LET a == SumOfPercents(rows, k - 1)
       IN  Divide(a[1] * rows[k].cnt + rows[k].second_cnt * a[2],
                  a[2] * rows[k].cnt)

(* A faulty variant: the percent of a join as the mean of its buckets' percents. *)
MeanPercent(rows) ==
  LET a == SumOfPercents(rows, Len(rows))
  IN  Divide(a[1], a[2] * Len(rows))

(* join.percent = joined_rows / total_rows, after the loop over the rows *)
JoinPercent(rows) == Divide(SumSecond(rows, Len(rows)), SumCnt(rows, Len(rows)))

(* The rows the loop handles before a division raises: all of them, or     *)
(* those before the first row whose cnt is 0.                              *)
RowsHandled(rows) ==
  LET zero == {k \in DOMAIN rows : rows[k].cnt = 0}
  IN  IF zero = {} THEN Len(rows) ELSE MinOf(zero) - 1

(* join_stats after the first n rows: a later row of the same key          *)
(* overwrites an earlier one.                                              *)
JoinStats(rows, n, group_by) ==
  LET KeyOf(k) == IF Not(group_by) THEN "" ELSE Get(rows[k].grouped)
      keys == {KeyOf(k) : k \in 1..n}
  IN  [g \in keys |->
         LET k == CHOOSE m \in 1..n :
                    KeyOf(m) = g /\ \A x \in 1..n : KeyOf(x) = g => x <= m
         IN  [ percent |-> Divide(rows[k].second_cnt, rows[k].cnt),
               num_rows |-> rows[k].second_cnt,
               key |-> IF Not(group_by) THEN "all"
                       ELSE Get(rows[k].grouped) ]]

(* Whether the statistics of a join raise ZeroDivisionError: in the loop   *)
(* on a row whose cnt is 0, or after it when total_rows is 0.              *)
StatsRaise(rows) ==
  RowsHandled(rows) < Len(rows) \/ SumCnt(rows, Len(rows)) = 0

(* The Join of a pair and of the rows its query returned.  Beside the      *)
(* attributes of the Join it keeps where it comes from: the group and the  *)
(* indices of the iteration, and the rows.                                 *)
NewJoin(name, from_field, to_field, sql, rows, group_by, origin) ==
  [ name |-> name, from_field |-> from_field, to_field |-> to_field,
    sql |-> sql, rows |-> rows, origin |-> origin,
    join_stats |-> JoinStats(rows, RowsHandled(rows), group_by),
    percent |-> IF StatsRaise(rows) THEN None ELSE Some(JoinPercent(rows)),
    num_rows |-> IF StatsRaise(rows) THEN None
                 ELSE Some(SumSecond(rows, Len(rows))) ]

(* The results a join query may return: grouped by a column, any number    *)
(* of buckets, none of them empty; not grouped, a single row.              *)
QueryResults(results, group_by) ==
  IF Not(group_by) THEN results.ungrouped ELSE results.grouped

(* The iteration after iteration (g, a, b) of the pairing loops. *)
NextPair(jc, g, a, b) ==
  IF b < Len(jc[g].group) THEN [pc |-> "pair", grp |-> g, i |-> a, j |-> b + 1]
  ELSE IF a < Len(jc[g].group)
  THEN [pc |-> "pair", grp |-> g, i |-> a + 1, j |-> 1]
  ELSE FirstPair(jc, g + 1)

(* What an iteration of the pairing loops does with its pair: "same" (j is *)
(* i), "ValueError" (an entry that does not split at "|" into a table and  *)
(* a column), "unmarked" (no + on either side), "done" (the key is in      *)
(* join_done), "self" (both sides the same column), or "join".             *)
PairCase(group, a, b, done) ==
  LET first_table == TablePart(group[a])
      second_table == TablePart(group[b])
      ft == LStripPlus(first_table)
      st == LStripPlus(second_table)
      fc == ColumnPart(group[a])
      sc == ColumnPart(group[b])
  IN  IF a = b THEN "same"
      ELSE IF ~Unpacks(group[a]) \/ ~Unpacks(group[b]) THEN "ValueError"
      ELSE IF ~Eligible(first_table, second_table) THEN "unmarked"
      ELSE IF JoinKey(ft, fc, st, sc) \in done THEN "done"
      ELSE IF ft = st /\ fc = sc THEN "self"
      ELSE "join"

(* tsql(table): table.replace(":", ".") *)
Tsql(table) == [k \in DOMAIN table |-> IF table[k] = ":" THEN "." ELSE table[k]]

(* The query text, by what is formatted into it: the group-by column only  *)
(* in the query that has a GROUP BY.                                       *)
QueryText(ft, fc, st, sc, group_by) ==
  [ first_table |-> Tsql(ft), first_column |-> fc, second_table |-> Tsql(st),
    second_column |-> sc,
    group_by |-> IF Not(group_by) THEN None ELSE group_by ]

(* group_config.get(first_table, None) *)
GroupBy(gc, table) == IF table \in DOMAIN gc THEN Some(gc[table]) ELSE None

(* The three appends that record join number n: on the from field, on the  *)
(* to field and on the table of the from field.                            *)
Recorded(ts, from, to, n) ==
  LET t1 == [ts EXCEPT ![from.table].fields[1][from.field].from_joins =
                         Append(@, n)]
      t2 == [t1 EXCEPT ![to.table].fields[1][to.field].to_joins =
                         Append(@, n)]
  IN  [t2 EXCEPT ![from.table].from_joins = Append(@, n)]

(* A faulty variant: a pair whose fields are not found is passed over. *)
FieldsNotFoundSkipped(jc, g, a, b) == NextPair(jc, g, a, b)

(* raise TypeError("fields not found: ..."): the run ends at the pair. *)
FieldsNotFound(jc, g, a, b) ==
  [pc |-> "aborted", grp |-> g, i |-> a, j |-> b]

(* One iteration of the pairing loops. *)
PairStep ==
  /\ pc = "pair"
  /\ LET group == join_config[grp].group
         ft == LStripPlus(TablePart(group[i]))
         st == LStripPlus(TablePart(group[j]))
         fc == ColumnPart(group[i])
         sc == ColumnPart(group[j])
         case == PairCase(group, i, j, join_done)
         next == NextPair(join_config, grp, i, j)
         from == FindField(tables, ft, fc)
         to == FindField(tables, st, sc)
         group_by == GroupBy(group_config, ft)
     IN  IF case = "ValueError"
         THEN /\ error' = "ValueError"
              /\ pc' = "aborted"
              /\ UNCHANGED << tables, grp, i, j, join_done, joins, queries,
                              skipped >>
         ELSE IF case # "join"
         THEN /\ skipped' = IF case = "done"
                            THEN skipped \cup {<<ft, fc, st, sc>>}
                            ELSE skipped
              /\ pc' = next.pc /\ grp' = next.grp /\ i' = next.i
              /\ j' = next.j
              /\ UNCHANGED << error, tables, join_done, joins, queries >>
         ELSE IF from.status = "raises" \/ to.status = "raises"
         THEN /\ join_done' = join_done \cup {JoinKey(ft, fc, st, sc)}
              /\ error' = "TypeError: 'NoneType' object is not iterable"
              /\ pc' = "aborted"
              /\ UNCHANGED << tables, grp, i, j, joins, queries, skipped >>
         ELSE IF from.status = "none" \/ to.status = "none"
         THEN /\ join_done' = join_done \cup {JoinKey(ft, fc, st, sc)}
              /\ error' = "TypeError: fields not found"
              /\ LET p == FieldsNotFound(join_config, grp, i, j)
                 IN  pc' = p.pc /\ grp' = p.grp /\ i' = p.i /\ j' = p.j
              /\ UNCHANGED << tables, joins, queries, skipped >>
         ELSE \E rows \in QueryResults(bq_results, group_by) :
                LET sql == QueryText(ft, fc, st, sc, group_by)
                    from_field == [ table |-> tables[from.table].name,
                                    name |-> Get(tables[from.table].fields)
                                               [from.field].name ]
                    to_field == [ table |-> tables[to.table].name,
                                  name |-> Get(tables[to.table].fields)
                                             [to.field].name ]
                    p == IF StatsRaise(rows)
                         THEN [pc |-> "aborted", grp |-> grp, i |-> i,
                               j |-> j]
                         ELSE next
                IN  /\ join_done' = join_done \cup {JoinKey(ft, fc, st, sc)}
                    /\ queries' = Append(queries, sql)
                    /\ joins' = Append(joins,
                                       NewJoin(join_config[grp].name,
                                               from_field, to_field, sql,
                                               rows, group_by,
                                               <<grp, i, j>>))
                    /\ tables' = Recorded(tables, from, to, Len(joins) + 1)
                    /\ error' = IF StatsRaise(rows) THEN "ZeroDivisionError"
                                ELSE NoError
                    /\ pc' = p.pc /\ grp' = p.grp /\ i' = p.i /\ j' = p.j
                    /\ UNCHANGED skipped
  /\ UNCHANGED << datasets, cursor, latest_table_base, no_version_tables,
                  group_config, join_input, join_config, bq_results, files >>

(***************************************************************************)
(* The report.                                                             *)
(***************************************************************************)

(* index.md is written, and other_formats(index_output) then reads         *)
(* args.formats, an attribute the parsed arguments never have (the parser  *)
(* defines no --formats option): AttributeError ends the run before any    *)
(* page of a dataset is written.                                           *)
WriteIndex ==
  /\ pc = "index"
  /\ files' = files \cup {"index.md"}
  /\ error' = "AttributeError: 'Namespace' object has no attribute 'formats'"
  /\ pc' = "aborted"
  /\ UNCHANGED << datasets, tables, cursor, latest_table_base,
                  no_version_tables, group_config, join_input, join_config,
                  grp, i, j, join_done, joins, queries, skipped, bq_results >>

(***************************************************************************)
(* The configurations and warehouse answers the runs are explored with.    *)
(***************************************************************************)

(* The entries the generated join groups are made of:                      *)
(* +A|c1, +B|c2, B|c2, +a|bc, ab|c, +A|zz (no such column) and +x_1|id     *)
(* (a table that is an old version).                                       *)
Entries ==
  { <<"+", "A", "|", "c", "1">>, <<"+", "B", "|", "c", "2">>,
    <<"B", "|", "c", "2">>, <<"+", "a", "|", "b", "c">>,
    <<"a", "b", "|", "c">>, <<"+", "A", "|", "z", "z">>,
    <<"+", "x", "_", "1", "|", "i", "d">> }

RECURSIVE SeqsUpTo(_, _)
SeqsUpTo(S, n) ==
  IF n = 0 THEN {<<>>}
  ELSE LET shorter == SeqsUpTo(S, n - 1)
       IN  shorter \cup {Append(q, x) : q \in shorter, x \in S}

(* A configuration of one join group. *)
OneGroup(group) == << [name |-> "g1", group |-> group] >>

(* [+A|c1, +B|c2, +C|c3] *)
ThreeFields == OneGroup(<< <<"+", "A", "|", "c", "1">>, <<"+", "B", "|", "c", "2">>, <<"+", "C", "|", "c", "3">> >>)

(* Two groups that share a pair: g1 [+A|c1, B|c2], g2 [+B|c2, +A|c1, +C|c3]. *)
TwoGroups ==
  << [name |-> "g1", group |-> << <<"+", "A", "|", "c", "1">>, <<"B", "|", "c", "2">> >>],
     [name |-> "g2", group |-> << <<"+", "B", "|", "c", "2">>, <<"+", "A", "|", "c", "1">>, <<"+", "C", "|", "c", "3">> >>] >>

(* Groups with wildcards: [x_*|c*, +A|c1], [B|c2, *|c*, +A|c1],            *)
(* [+x_*|c*, A|c1], [a.*|c, +A|c1], [+A|c1, zz*|c*].                       *)
WildcardGroups ==
  { OneGroup(<< <<"x", "_", "*", "|", "c", "*">>, <<"+", "A", "|", "c", "1">> >>), OneGroup(<< <<"B", "|", "c", "2">>, <<"*", "|", "c", "*">>, <<"+", "A", "|", "c", "1">> >>),
    OneGroup(<< <<"+", "x", "_", "*", "|", "c", "*">>, <<"A", "|", "c", "1">> >>), OneGroup(<< <<"a", ".", "*", "|", "c">>, <<"+", "A", "|", "c", "1">> >>),
    OneGroup(<< <<"+", "A", "|", "c", "1">>, <<"z", "z", "*", "|", "c", "*">> >>) }

(* A group with a possessive wildcard: [x*+|c*, +A|c1]. *)
PossessiveGroup ==
  OneGroup(<< <<"x", "*", "+", "|", "c", "*">>, <<"+", "A", "|", "c", "1">> >>)

(* Groups with an entry that does not split into a table and a column:     *)
(* [+A|c1|z, B|c2], [B|c2, +Ac1], [+A|c1, x_*|c*|z].                       *)
MalformedGroups ==
  { OneGroup(<< <<"+", "A", "|", "c", "1", "|", "z">>, <<"B", "|", "c", "2">> >>),
    OneGroup(<< <<"B", "|", "c", "2">>, <<"+", "A", "c", "1">> >>),
    OneGroup(<< <<"+", "A", "|", "c", "1">>, <<"x", "_", "*", "|", "c", "*", "|", "z">> >>) }

PairConfigs ==
  {OneGroup(g) : g \in SeqsUpTo(Entries, MaxGroupLen)}
    \cup {ThreeFields, TwoGroups, PossessiveGroup} \cup WildcardGroups
    \cup MalformedGroups

(* [+A|c1, B|c2], with table A grouped by column g. *)
StatConfig == OneGroup(<< <<"+", "A", "|", "c", "1">>, <<"B", "|", "c", "2">> >>)

StatGroups == [t \in {<<"A">>} |-> <<"g">>]

(* Table A with the empty string for its group-by column. *)
EmptyColumnGroups == [t \in {<<"A">>} |-> <<>>]

(* The rows a join query can return for one bucket: cnt counts the rows of *)
(* the bucket, at least lo, and second_cnt those of them that matched.     *)
Rows(lo, grouped) ==
  { r \in [cnt : lo..MaxCnt, second_cnt : 0..MaxCnt, grouped : {grouped}] :
      r.second_cnt <= r.cnt }

(* Without GROUP BY the query returns one row, of cnt 0 for an empty       *)
(* table.                                                                  *)
UngroupedResults == { <<r>> : r \in Rows(0, None) }

(* With GROUP BY the query returns one row per value of the column, each   *)
(* of at least one row: none for an empty table.  The values are k1, k2   *)
(* and so on.                                                              *)
RECURSIVE GroupedUpTo(_)
GroupedUpTo(n) ==
  IF n = 0 THEN {<<>>}
  ELSE LET shorter == GroupedUpTo(n - 1)
       IN  shorter \cup {Append(q, r) : q \in {x \in shorter : Len(x) = n - 1},
                                        r \in Rows(1, Some("k" \o ToString(n)))}

GroupedResults == GroupedUpTo(MaxBuckets)

AllResults == [ungrouped |-> UngroupedResults, grouped |-> GroupedResults]

(* A warehouse whose join queries all find 1 row of 2 matched. *)
PlainResults ==
  [ ungrouped |-> { << [cnt |-> 2, second_cnt |-> 1, grouped |-> None] >> },
    grouped |-> { << [cnt |-> 2, second_cnt |-> 1, grouped |-> Some("k1")] >> } ]

(***************************************************************************)
(* A run from its start: one dataset in the configuration, nothing         *)
(* discovered yet.                                                         *)
(***************************************************************************)

(* [+a_2|id, b_1|id, a_*|i*] *)
RunConfig == OneGroup(<< <<"+", "a", "_", "2", "|", "i", "d">>, <<"b", "_", "1", "|", "i", "d">>, <<"a", "_", "*", "|", "i", "*">> >>)

(* Table a_2 grouped by column g, or no group-by column at all. *)
RunGroups == { EmptyDict, [t \in {<<"a", "_", "2">>} |-> <<"g">>] }

Init ==
  /\ pc = "discover"
  /\ error = NoError
  /\ datasets = << [name |-> "ds", last_updated |-> None] >>
  /\ tables = <<>>
  /\ cursor = 1
  /\ latest_table_base = EmptyDict
  /\ no_version_tables = {}
  /\ group_config \in RunGroups
  /\ join_input \in {<<>>, RunConfig}
  /\ join_config = join_input
  /\ grp = 1 /\ i = 1 /\ j = 1
  /\ join_done = {}
  /\ joins = <<>>
  /\ queries = <<>>
  /\ skipped = {}
  /\ bq_results = PlainResults
  /\ files = {}

Next ==
  \/ \E name \in VersionedNames : Discover(name)
  \/ VersionScan
  \/ MarkOld
  \/ LoadTable
  \/ Expand
  \/ PairStep
  \/ WriteIndex

Spec == Init /\ [][Next]_vars

(***************************************************************************)
(* Runs without join groups: discovery, versions, loading, report.         *)
(***************************************************************************)
InitVersions == Init /\ join_input = <<>>

NextVersions ==
  \/ \E name \in VersionedNames : Discover(name)
  \/ VersionScan
  \/ MarkOld
  \/ LoadTable
  \/ WriteIndex

SpecVersions == InitVersions /\ [][NextVersions]_vars

(***************************************************************************)
(* Runs from the end of loading, over the listing A, B, C, a, ab, x_1,     *)
(* x_2: join groups of every shape with a plain warehouse, or one join     *)
(* group with every result a join query can return.                        *)
(***************************************************************************)

(* latest_table_base and no_version_tables after the scan of the tables    *)
(* from k on.                                                              *)
RECURSIVE ScanAll(_, _, _, _)
ScanAll(names, k, ltb, nvt) ==
  IF k > Len(names) THEN [ltb |-> ltb, nvt |-> nvt]
  ELSE LET r == ScanStep(ltb, nvt, names[k])
       IN  ScanAll(names, k + 1, r.ltb, r.nvt)

(* The tables of a listing after version detection. *)
Resolved(names) ==
  MarkedOld([k \in DOMAIN names |->
               [NewTable(names[k]) EXCEPT
                  !.version = ScannedVersion(names[k])]],
            ScanAll(names, 1, EmptyDict, {}).ltb)

(* The tables after the loading loop. *)
LoadedAll(ts, gc) == [k \in DOMAIN ts |-> LoadStep(ts[k], gc)]

(* The dataset after the loading loop over the tables up to k. *)
RECURSIVE UpdatedOver(_, _, _)
UpdatedOver(d, ts, k) ==
  IF k = 0 THEN d ELSE DatasetUpdated(UpdatedOver(d, ts, k - 1), ts[k])

InitJoins ==
  /\ \/ /\ join_input \in PairConfigs
        /\ group_config = EmptyDict
        /\ bq_results = PlainResults
     \/ /\ join_input = StatConfig
        /\ group_config \in {StatGroups, EmptyColumnGroups}
        /\ bq_results = AllResults
  /\ join_config = join_input
  /\ tables = LoadedAll(Resolved(JoinListing), group_config)
  /\ datasets = << UpdatedOver([name |-> "ds", last_updated |-> None],
                               tables, Len(tables)) >>
  /\ latest_table_base = ScanAll(JoinListing, 1, EmptyDict, {}).ltb
  /\ no_version_tables = ScanAll(JoinListing, 1, EmptyDict, {}).nvt
  /\ cursor = Len(tables) + 1
  /\ error = NoError
  /\ LET p == FirstExpand(join_config, 1)
     IN  pc = p.pc /\ grp = p.grp /\ i = p.i /\ j = p.j
  /\ join_done = {}
  /\ joins = <<>>
  /\ queries = <<>>
  /\ skipped = {}
  /\ files = {}

NextJoins ==
  \/ Expand
  \/ PairStep
  \/ WriteIndex

SpecJoins == InitJoins /\ [][NextJoins]_vars


(***************************************************************************)
(* Properties.                                                             *)
(***************************************************************************)

(* Version detection and marking are over. *)
VersionsResolved == pc \notin {"discover", "versions"}

(* The loading loop is over. *)
LoadingDone == pc \notin {"discover", "versions", "load"}

(* The index was written. *)
IndexWritten == "index.md" \in files

(* The pairing loops ran to their end. *)
PairingDone == pc = "index" \/ IndexWritten

TableNames == {tables[k].name : k \in DOMAIN tables}

(* The discovered names that match the version pattern with base b. *)
Family(b) == {n \in TableNames : HasVersion(n) /\ VersionBase(n) = b}

(* n is the greatest of the names F under string comparison. *)
Greatest(n, F) == \A m \in F : m = n \/ StrLess(m, n)

(* C2: of the discovered tables that match the version pattern and share   *)
(* a base that no discovered table is named, exactly one is not marked     *)
(* old after version resolution: the greatest name under string            *)
(* comparison, whatever the order of discovery.                            *)
C2_LatestIsStringGreatest ==
  VersionsResolved =>
    \A k \in DOMAIN tables :
      LET n == tables[k].name
      IN  (HasVersion(n) /\ VersionBase(n) \notin TableNames) =>
            (~tables[k].old_version <=> Greatest(n, Family(VersionBase(n))))

(* a_1, a_2 and a_10 were discovered and no a: a_2 is the latest. *)
C2_Witness ==
  /\ VersionsResolved
  /\ TableNames = {<<"a", "_", "1">>, <<"a", "_", "2">>, <<"a", "_", "1", "0">>}
  /\ \A k \in DOMAIN tables :
       tables[k].old_version <=> tables[k].name # <<"a", "_", "2">>

(* The base of a name: a name that does not match is its own base. *)
BaseOf(n) == IF HasVersion(n) THEN VersionBase(n) ELSE n

(* C3 as claimed: a table is old if and only if it is not the greatest of  *)
(* the discovered tables that share its base.                              *)
C3_OldIffNotGreatestOfBase ==
  VersionsResolved =>
    \A k \in DOMAIN tables :
      LET n == tables[k].name
      IN  tables[k].old_version <=>
            ~Greatest(n, {m \in TableNames : BaseOf(m) = BaseOf(n)})

(* C3 as amended: a table is old if and only if it matches the version     *)
(* pattern and either a discovered table that does not match is named      *)
(* exactly its base, or it is not the greatest of the discovered matching  *)
(* tables of its base; a table that does not match is never old.           *)
C3_OldIffSuperseded ==
  VersionsResolved =>
    \A k \in DOMAIN tables :
      LET n == tables[k].name
      IN  tables[k].old_version <=>
            /\ HasVersion(n)
            /\ \/ VersionBase(n) \in TableNames /\ ~HasVersion(VersionBase(n))
               \/ ~Greatest(n, Family(VersionBase(n)))

(* a and a_2 were discovered: a_2, the greatest name of base a, is old and *)
(* a is not.                                                               *)
C3_Witness ==
  /\ VersionsResolved
  /\ \E k \in DOMAIN tables : tables[k].name = <<"a", "_", "2">> /\ tables[k].old_version
  /\ \E k \in DOMAIN tables : tables[k].name = <<"a">> /\ ~tables[k].old_version
  /\ Greatest(<<"a", "_", "2">>, TableNames)

(* C7: in every state a table marked old is in the list of tables with no  *)
(* fields, row count, byte size, description, date or group-by statistics; *)
(* when the loading loop is over exactly the tables not marked old have    *)
(* them, and until then no error was raised.                               *)
C7_OldTablesNotLoaded ==
  /\ \A k \in DOMAIN tables :
       tables[k].old_version =>
         /\ tables[k].fields = None
         /\ tables[k].num_rows = None
         /\ tables[k].num_bytes = None
         /\ tables[k].description = None
         /\ tables[k].last_updated = None
         /\ tables[k].stats = None
  /\ pc \in {"load", "expand", "pair", "index"} => error = NoError
  /\ LoadingDone =>
       /\ \A k \in DOMAIN tables :
            ~tables[k].old_version =>
              /\ tables[k].fields # None
              /\ tables[k].num_rows # None
              /\ tables[k].num_bytes # None
              /\ tables[k].description # None
              /\ tables[k].last_updated # None

(* The report is written for an old a_1 and a loaded a_2 that has          *)
(* group-by statistics.                                                    *)
C7_Witness ==
  /\ IndexWritten
  /\ \E k \in DOMAIN tables :
       tables[k].name = <<"a", "_", "1">> /\ tables[k].old_version
  /\ \E k \in DOMAIN tables :
       /\ tables[k].name = <<"a", "_", "2">>
       /\ ~tables[k].old_version
       /\ tables[k].fields # None
       /\ tables[k].stats # None

(* The table and the column of an entry, the marker stripped. *)
SideOf(entry) ==
  [table |-> LStripPlus(TablePart(entry)), name |-> ColumnPart(entry)]

Marked(entry) == StartsWithPlus(TablePart(entry))

(* The iterations of the pairing loops over a configuration whose pair is  *)
(* of two different positions, marked on a side, and not of one column     *)
(* with itself.                                                            *)
EligiblePairs(jc) ==
  { p \in UNION { {<<g, a, b>> : a \in DOMAIN jc[g].group,
                                b \in DOMAIN jc[g].group} : g \in DOMAIN jc } :
      LET group == jc[p[1]].group
      IN  /\ p[2] # p[3]
          /\ Marked(group[p[2]]) \/ Marked(group[p[3]])
          /\ SideOf(group[p[2]]) # SideOf(group[p[3]]) }

(* A Join from field f to field t was created. *)
Joined(f, t) ==
  \E n \in DOMAIN joins : joins[n].from_field = f /\ joins[n].to_field = t

(* C1: once the pair (X, Y) of a group was processed the pair (Y, X) is    *)
(* skipped, and the group [+A|c1, +B|c2, +C|c3] makes exactly 3 Joins.     *)
C1_MirrorSkipped ==
  /\ \A m, n \in DOMAIN joins :
       ~(joins[m].from_field = joins[n].to_field
         /\ joins[m].to_field = joins[n].from_field)
  /\ (PairingDone /\ join_input = ThreeFields) => Len(joins) = 3

(* The sums of the counts of the rows of a query. *)
TotalRows(rows) == SumCnt(rows, Len(rows))

MatchedRows(rows) == SumSecond(rows, Len(rows))

(* C4: the percent of a Join whose buckets have a total count above 0 is   *)
(* the sum of the matched counts over the sum of the total counts, and its *)
(* num_rows is the sum of the matched counts.                              *)
C4_PercentOfSums ==
  \A n \in DOMAIN joins :
    TotalRows(joins[n].rows) > 0 =>
      /\ joins[n].percent # None
      /\ Get(joins[n].percent)[1] * TotalRows(joins[n].rows)
           = Get(joins[n].percent)[2] * MatchedRows(joins[n].rows)
      /\ joins[n].num_rows = Some(MatchedRows(joins[n].rows))

(* A Join of two buckets, of 2 rows with 1 matched and of 1 row not        *)
(* matched: its percent is 1/3, and the mean of 1/2 and 0 is 1/4.          *)
C4_Witness ==
  \E n \in DOMAIN joins :
    /\ Len(joins[n].rows) = 2
    /\ joins[n].rows[1].cnt = 2 /\ joins[n].rows[1].second_cnt = 1
    /\ joins[n].rows[2].cnt = 1 /\ joins[n].rows[2].second_cnt = 0
    /\ joins[n].percent = Some(<<1, 3>>)
    /\ joins[n].num_rows = Some(1)
    /\ joins[n].join_stats["k1"].percent = <<1, 2>>
    /\ joins[n].join_stats["k2"].percent = <<0, 1>>

(* The specified matching: "*" is any sequence, every other character is     *)
(* itself, and the pattern matches a prefix.                               *)
RECURSIVE GlobMatch(_, _)
GlobMatch(pattern, s) ==
  IF pattern = <<>> THEN TRUE
  ELSE IF Head(pattern) = "*"
  THEN \E n \in 0..Len(s) : GlobMatch(Tail(pattern), SubSeq(s, n + 1, Len(s)))
  ELSE s # <<>> /\ Head(pattern) = Head(s) /\ GlobMatch(Tail(pattern), Tail(s))

RECURSIVE GlobFields(_, _, _)
GlobFields(t, k, pattern) ==
  IF k > Len(Get(t.fields)) THEN <<>>
  ELSE (IF GlobMatch(pattern, Get(t.fields)[k].name)
        THEN << t.name \o <<"|">> \o Get(t.fields)[k].name >>
        ELSE <<>>)
       \o GlobFields(t, k + 1, pattern)

RECURSIVE GlobTables(_, _, _)
GlobTables(ts, k, entry) ==
  IF k > Len(ts) THEN <<>>
  ELSE (IF ~ts[k].old_version
           /\ GlobMatch(LStripPlus(TablePart(entry)), ts[k].name)
        THEN GlobFields(ts[k], 1, ColumnPart(entry))
        ELSE <<>>)
       \o GlobTables(ts, k + 1, entry)

(* A group with each wildcard entry replaced, at its place, by the         *)
(* table|column strings that matching gives.                               *)
RECURSIVE GlobExpanded(_, _)
GlobExpanded(ts, group) ==
  IF group = <<>> THEN <<>>
  ELSE (IF HasWildcard(Head(group)) THEN GlobTables(ts, 1, Head(group))
        ELSE << Head(group) >>)
       \o GlobExpanded(ts, Tail(group))

(* The run ended on a lookup of a field that failed. *)
LookupFailed ==
  error \in {"TypeError: fields not found",
             "TypeError: 'NoneType' object is not iterable"}

(* The run was stopped by the expansion loop: the entry it stopped on      *)
(* still has its wildcard.                                                 *)
StoppedInExpansion ==
  /\ pc = "aborted"
  /\ error \in {"re.error", "ValueError"}
  /\ \E g \in DOMAIN join_config : \E k \in DOMAIN join_config[g].group :
       HasWildcard(join_config[g].group[k])

(* The expansion loop is over. *)
ExpansionDone ==
  \/ pc \in {"pair", "index"}
  \/ pc = "aborted" /\ ~StoppedInExpansion

(* C5: the expansion ends for every join group, and then no entry has a    *)
(* wildcard: each wildcard entry is replaced at its place by the           *)
(* table|column strings of the tables that are not old and match the       *)
(* table pattern and of their fields that match the column pattern, in     *)
(* scan order, and the other entries are unchanged.                        *)
C5_WildcardsExpanded ==
  /\ ~StoppedInExpansion
  /\ ExpansionDone =>
       \A g \in DOMAIN join_config :
         /\ \A k \in DOMAIN join_config[g].group :
              ~HasWildcard(join_config[g].group[k])
         /\ join_config[g].group = GlobExpanded(tables, join_input[g].group)

(* Iteration p of the pairing loops comes before iteration q. *)
Before(p, q) ==
  \/ p[1] < q[1]
  \/ p[1] = q[1] /\ p[2] < q[2]
  \/ p[1] = q[1] /\ p[2] = q[2] /\ p[3] < q[3]

(* C6: when a side of an eligible pair has no field the run stops at that  *)
(* pair: no query and no Join for the pair or for a later pair, and no     *)
(* report file.                                                            *)
C6_LookupFailureStopsRun ==
  LookupFailed =>
    /\ pc = "aborted"
    /\ files = {}
    /\ Len(queries) = Len(joins)
    /\ \A n \in DOMAIN joins : Before(joins[n].origin, <<grp, i, j>>)
    /\ <<grp, i, j>> \in EligiblePairs(join_config)
    /\ LET group == join_config[grp].group
           f == FindField(tables, SideOf(group[i]).table, SideOf(group[i]).name)
           t == FindField(tables, SideOf(group[j]).table, SideOf(group[j]).name)
       IN  f.status # "found" \/ t.status # "found"

(* The run stopped on a column that does not exist after it had made a     *)
(* Join.                                                                   *)
C6_Witness ==
  /\ pc = "aborted"
  /\ error = "TypeError: fields not found"
  /\ Len(joins) > 0

(* C8: every Join comes from two entries at different positions of one     *)
(* join group, at least one of them marked with +; its fields are those of *)
(* the two entries with the marker stripped, and are not the same field;   *)
(* every query issued made a Join.                                         *)
C8_JoinsFromMarkedPairs ==
  /\ Len(queries) = Len(joins)
  /\ \A n \in DOMAIN joins :
       LET o == joins[n].origin
           group == join_config[o[1]].group
       IN  /\ o[2] # o[3]
           /\ Marked(group[o[2]]) \/ Marked(group[o[3]])
           /\ joins[n].name = join_config[o[1]].name
           /\ joins[n].from_field = SideOf(group[o[2]])
           /\ joins[n].to_field = SideOf(group[o[3]])
           /\ ~StartsWithPlus(joins[n].from_field.table)
           /\ ~StartsWithPlus(joins[n].to_field.table)
           /\ joins[n].from_field # joins[n].to_field
           /\ queries[n] = joins[n].sql

(* The pairing loops ended over a group with two entries that are not      *)
(* marked, and a Join was made from an entry that is not marked to one     *)
(* that is.                                                                *)
C8_Witness ==
  /\ PairingDone
  /\ \E g \in DOMAIN join_config :
       \E a, b \in DOMAIN join_config[g].group :
         /\ a # b
         /\ ~Marked(join_config[g].group[a])
         /\ ~Marked(join_config[g].group[b])
  /\ \E n \in DOMAIN joins :
       LET o == joins[n].origin
       IN  /\ ~Marked(join_config[o[1]].group[o[2]])
           /\ Marked(join_config[o[1]].group[o[3]])

(* A query returned no row, or a row whose cnt is 0. *)
EmptyBucket(rows) == rows = <<>> \/ \E k \in DOMAIN rows : rows[k].cnt = 0

(* C9: when a join query returns a bucket of total count 0, or no bucket,  *)
(* the division by zero is guarded: the percent of the Join is recorded as *)
(* an undefined value and the run goes on.                                 *)
C9_DivisionByZeroGuarded ==
  /\ error # "ZeroDivisionError"
  /\ \A n \in DOMAIN joins :
       EmptyBucket(joins[n].rows) => joins[n].percent # None

(* C10: a pair that is skipped as already done, and is not of one column   *)
(* with itself, has a Join of exactly that from field and that to field.   *)
C10_SkippedPairWasJoined ==
  \A p \in skipped :
    (p[1] # p[3] \/ p[2] # p[4]) =>
      Joined([table |-> p[1], name |-> p[2]], [table |-> p[3], name |-> p[4]])

====
